---- MODULE Spec2Model ----
(***************************************************************************)
(* The JSON-RPC request handler of the Jentic MCP plugin                   *)
(* (mcp/transport/jsonrpc_handler.py) and the adapter it dispatches        *)
(* tools/call to (mcp/adapters/mcp.py).                                    *)
(*                                                                         *)
(* One request is handled at a time.  handle_request runs up to the one    *)
(* await of a remote call a tool makes (Receive), the remote service       *)
(* answers (RemoteReply), and the handler finishes with a response.        *)
(*                                                                         *)
(* Spec is the handler called directly; SpecHttp is the handler behind the *)
(* Streamable HTTP transport (mcp/transport/streamable_http.py and         *)
(* http_base.py): POST / and the SSE streams of GET /.  SpecCfg is the     *)
(* SDK's AgentConfig.from_env (python/src/jentic/lib/cfg.py) under each    *)
(* environment of the process.  SpecTasks is one handler serving several   *)
(* requests at once, each in a task of its own that suspends in its remote *)
(* call while the others run.                                              *)
(*                                                                         *)
(* JSON and Python values are tokens (strings): a key that is not in a     *)
(* mapping is Absent, null is None, a non-empty array is JList, mappings   *)
(* are EmptyDict, SomeDict and Mapping, and any other token is a string.   *)
(***************************************************************************)
EXTENDS Integers, Sequences, FiniteSets, TLC

VARIABLES
    environ,   \* os.environ of the process: JENTIC_UUID, FEEDBACK_ENDPOINT_URL
    pc,        \* "idle", "awaiting" (suspended in a remote call), "done"
    req,       \* the request being handled (data of handle_request)
    pending,   \* the remote call the handler is suspended in
    calls,     \* the remote calls issued while handling req, in order
    outcome,   \* what the remote call came back with
    invoked,   \* the adapter methods called while handling req, in order
    caught,    \* the exception an except clause of the handler caught
    resp,      \* what handle_request returned
    served,    \* the number of requests already answered
    initialized,  \* the protocolVersion entries of the initialize requests
               \* answered so far, in order (a history, no state of the program)
    active_connections,  \* the transport's table: connection id -> message queue
    stream,    \* per connection id, the last event its event_stream yielded
    posted,    \* the body of the POST being handled
    http,      \* the HTTP reply to the POST
    sdk_environ,  \* os.environ of a process that calls AgentConfig.from_env
    config,    \* what AgentConfig.from_env returned or raised
    tasks      \* per task that runs handle_request concurrently, its locals

hvars == <<environ, pc, req, pending, calls, outcome, invoked, caught, resp, served,
           initialized>>
tvars == <<active_connections, stream, posted, http>>
cvars == <<sdk_environ, config>>
xvars == <<cvars, tasks>>
vars == <<hvars, tvars, xvars>>

----------------------------------------------------------------------------
(* Bounds *)

MaxId == 2          \* request ids are "1" .. MaxId
MaxRequests == 2    \* requests handled in one run
MaxConns == 2       \* SSE connections open at the same time
MaxPosts == 1       \* POSTs handled in one run

----------------------------------------------------------------------------
(* Values *)

Absent == "<absent>"
None == "<None>"
JList == "<list>"
EmptyDict == "{}"
SomeDict == "{...}"
\* the mapping whose entries are the fields of the request record below
Mapping == "<mapping>"

\* isinstance(v, dict)
IsDict(v) == v \in {EmptyDict, SomeDict, Mapping}

\* bool(v): None, "" and {} are falsy
Truthy(v) == v \notin {None, "", EmptyDict}

\* hash(v) is defined: lists and dicts are unhashable
Hashable(v) == v \notin {JList, EmptyDict, SomeDict, Mapping}

\* d.get(k), v the value at k or Absent
Get(v) == IF v = Absent THEN None ELSE v

\* d.get(k, default)
GetDefault(v, default) == IF v = Absent THEN default ELSE v

\* str(v) inside an f-string
Str(v) == IF v = None THEN "None" ELSE v

NoExc == "<no exception>"

\* str(e) of the AttributeError of x.get(...) on a value that is no mapping
AttributeErrorText(v) ==
    IF v = None THEN "'NoneType' object has no attribute 'get'"
    ELSE IF v = JList THEN "'list' object has no attribute 'get'"
    ELSE "'str' object has no attribute 'get'"

\* str(e) of the TypeError of x["k"] on a value that is no mapping
SubscriptErrorText(v) ==
    IF v = None THEN "'NoneType' object is not subscriptable"
    ELSE IF v = JList THEN "list indices must be integers or slices, not str"
    ELSE "string indices must be integers, not 'str'"

----------------------------------------------------------------------------
(* Requests: the data handle_request is given.  params and arguments are  *)
(* Mapping when they are JSON objects, and then the fields below are their *)
(* entries; the entries of a value that is no mapping are all Absent.      *)

Ids == {Absent} \cup {ToString(i) : i \in 1..MaxId}

BaseRequest ==
    [method |-> Absent, id |-> Absent, params |-> Absent,
     \* entries of params
     protocolVersion |-> Absent, clientInfo |-> Absent,
     name |-> Absent, arguments |-> Absent,
     \* entries of arguments
     capability_description |-> Absent,
     workflow_uuids |-> Absent, operation_uuids |-> Absent, api_name |-> Absent,
     execution_type |-> Absent, uuid |-> Absent, inputs |-> Absent, exec_id |-> Absent,
     feedback_data |-> Absent, fb_jentic_uuid |-> Absent]

InitializeShapes ==
    {[BaseRequest EXCEPT !.method = "initialize", !.params = p] : p \in {Absent, None, JList}}
    \cup {[BaseRequest EXCEPT !.method = "initialize", !.params = Mapping,
                              !.protocolVersion = v, !.clientInfo = c] :
              v \in {Absent, "2025-03-26"}, c \in {Absent, SomeDict, "cursor"}}

PlainShapes ==
    {[BaseRequest EXCEPT !.method = m, !.params = p] :
        m \in {"notifications/initialized", "tools/list", "ping", "resources/list",
               JList, Absent},
        p \in {Absent, None}}

ToolsCall == [BaseRequest EXCEPT !.method = "tools/call", !.params = Mapping]

LookupShapes ==
    {[BaseRequest EXCEPT !.method = "tools/call", !.params = p] : p \in {Absent, None, JList}}
    \cup {[ToolsCall EXCEPT !.name = n] : n \in {Absent, "generate_code_sample", JList}}

SearchShapes ==
    {[ToolsCall EXCEPT !.name = "search_apis", !.arguments = a] : a \in {Absent, None}}
    \cup {[ToolsCall EXCEPT !.name = "search_apis", !.arguments = Mapping,
                            !.capability_description = q] :
              q \in {Absent, "spotify music", "caf<e9>"}}

LoadShapes ==
    {[ToolsCall EXCEPT !.name = "load_execution_info", !.arguments = a] : a \in {Absent, JList}}
    \cup {[ToolsCall EXCEPT !.name = "load_execution_info", !.arguments = Mapping,
                            !.workflow_uuids = w, !.operation_uuids = o, !.api_name = n] :
              w \in {Absent, JList}, o \in {JList}, n \in {Absent, "discord"}}

ExecuteShapes ==
    {[ToolsCall EXCEPT !.name = "execute", !.arguments = a] : a \in {Absent, None}}
    \cup {[ToolsCall EXCEPT !.name = "execute", !.arguments = Mapping,
                            !.execution_type = t, !.uuid = u, !.inputs = i] :
              t \in {Absent, "operation", "workflow", "task"},
              u \in {Absent, "", "uuid-1"},
              i \in {Absent, SomeDict, JList}}
    \cup {[ToolsCall EXCEPT !.name = "execute", !.arguments = Mapping,
                            !.exec_id = "op_1", !.inputs = SomeDict]}

FeedbackShapes ==
    {[ToolsCall EXCEPT !.name = "submit_feedback", !.arguments = a] : a \in {Absent, JList}}
    \cup {[ToolsCall EXCEPT !.name = "submit_feedback", !.arguments = Mapping,
                            !.feedback_data = d] : d \in {Absent, EmptyDict, "not_a_dict"}}
    \cup {[ToolsCall EXCEPT !.name = "submit_feedback", !.arguments = Mapping,
                            !.feedback_data = SomeDict, !.fb_jentic_uuid = j] :
              j \in {Absent, "caller-uuid"}}

Shapes ==
    InitializeShapes \cup PlainShapes \cup LookupShapes \cup SearchShapes
    \cup LoadShapes \cup ExecuteShapes \cup FeedbackShapes

Requests == {[s EXCEPT !.id = i] : s \in Shapes, i \in Ids}

----------------------------------------------------------------------------
(* The remote service: what a call to the Jentic SDK or to the feedback    *)
(* endpoint comes back with.  Numbers in payloads are their decimal text.  *)

BaseCall ==
    [op |-> Absent, query |-> Absent, workflow_uuids |-> Absent,
     operation_uuids |-> Absent, uuid |-> Absent, inputs |-> Absent,
     url |-> Absent, json |-> Absent, json_jentic_uuid |-> Absent]

NoCall == BaseCall

BaseOutcome ==
    [k |-> "return", cls |-> Absent, text |-> Absent, value |-> Absent,
     success |-> Absent, error |-> Absent, status_code |-> Absent,
     workflows |-> 0, operations |-> 0]

NoOutcome == [BaseOutcome EXCEPT !.k = "none"]

Raises(cls, text) == [BaseOutcome EXCEPT !.k = "raise", !.cls = cls, !.text = text]

Outcomes(op) ==
    CASE op = "search_api_capabilities" ->
            {[BaseOutcome EXCEPT !.workflows = n, !.operations = n] : n \in {0, 1}}
            \cup {Raises("RuntimeError", "search failed")}
      [] op = "load_execution_info" ->
            {[BaseOutcome EXCEPT !.value = "<config>"],
             Raises("ValueError", "Operation not found"),
             Raises("RuntimeError", "connection reset")}
      [] op = "execute_operation" ->
            {[BaseOutcome EXCEPT !.value = "<output>"]}
            \* the dict the call returns reports success false
            \cup {[BaseOutcome EXCEPT !.value = "<failure report>", !.success = "False",
                                      !.error = e] : e \in {None, "upstream 404"}}
            \cup {Raises("RuntimeError", "connection reset")}
      [] op = "execute_workflow" ->
            {[BaseOutcome EXCEPT !.value = "<asdict>", !.success = "True", !.error = None]}
            \cup {[BaseOutcome EXCEPT !.value = "<asdict>", !.success = "False",
                                      !.error = e] : e \in {None, "step failed"}}
            \cup {Raises("RuntimeError", "connection reset")}
      [] op = "post" ->
            {[BaseOutcome EXCEPT !.status_code = c, !.text = t] :
                <<c, t>> \in {<<"200", "ok">>, <<"204", "">>,
                              <<"500", "Internal Server Error Text">>}}
            \cup {Raises("RequestError", "Simulated network error"),
                  Raises("RuntimeError", "Unexpected internal runtime issue")}

----------------------------------------------------------------------------
(* The adapter (MCPAdapter).  A method runs in two steps: up to its remote *)
(* call (Start), and on from the outcome of that call (Finish).  A step    *)
(* returns a payload, raises, or issues the call.                          *)

BasePayload ==
    [success |-> Absent, message |-> <<>>, output |-> Absent,
     suggested_next_actions |-> <<>>,
     matches |-> Absent, query |-> Absent, total_matches |-> Absent,
     operation_uuids |-> Absent, workflow_uuids |-> Absent, config |-> Absent,
     api_name |-> Absent]

NoPayload == BasePayload

Return(p) == [k |-> "return", payload |-> p, exc |-> NoExc, call |-> NoCall]
Raise(e) == [k |-> "raise", payload |-> NoPayload, exc |-> e, call |-> NoCall]
Await(c) == [k |-> "call", payload |-> NoPayload, exc |-> NoExc, call |-> c]

Failure(message) == [BasePayload EXCEPT !.success = "False", !.message = message]

search_api_capabilities_Start(request, arguments) ==
    IF ~IsDict(arguments) THEN Raise(SubscriptErrorText(arguments))
    ELSE IF request.capability_description = Absent
         THEN Raise("'capability_description'")
    ELSE Await([BaseCall EXCEPT !.op = "search_api_capabilities",
                                !.query = request.capability_description])

search_api_capabilities_Finish(request, out) ==
    IF out.k = "raise" THEN Raise(out.text)
    ELSE Return([BasePayload EXCEPT
                    !.matches = "<matches>",
                    !.query = request.capability_description,
                    !.total_matches = ToString(out.workflows + out.operations)])

generate_runtime_config_Start(request, arguments) ==
    IF ~IsDict(arguments) THEN Raise(AttributeErrorText(arguments))
    ELSE Await([BaseCall EXCEPT !.op = "load_execution_info",
                                !.workflow_uuids = Get(request.workflow_uuids),
                                !.operation_uuids = Get(request.operation_uuids)])

generate_runtime_config_Finish_Reraises(request, out) ==
    IF out.k = "raise" THEN Raise(out.text)
    ELSE Return([BasePayload EXCEPT
                    !.config = out.value,
                    !.api_name = IF Truthy(Get(request.api_name))
                                 THEN request.api_name ELSE Absent])

generate_runtime_config_Finish(request, out) ==
    IF out.k = "raise" /\ out.cls = "ValueError"
    THEN Return([BasePayload EXCEPT
                    !.success = "False",
                    !.operation_uuids = Get(request.operation_uuids),
                    !.workflow_uuids = Get(request.workflow_uuids),
                    !.message = <<out.text>>,
                    !.config = EmptyDict])
    ELSE IF out.k = "raise" THEN Raise(out.text)
    ELSE Return([BasePayload EXCEPT
                    !.config = out.value,
                    \* entries without an api_name take the request's api_name
                    !.api_name = IF Truthy(Get(request.api_name))
                                 THEN request.api_name ELSE Absent])

get_execute_tool_failure_suggested_next_actions == <<"submit_feedback">>

execute_Start_NoInputsCheck(request, arguments) ==
    IF ~IsDict(arguments) THEN Raise(AttributeErrorText(arguments))
    ELSE LET execution_type == Get(request.execution_type)
             uuid == Get(request.uuid)
             inputs == GetDefault(request.inputs, EmptyDict)
         IN  IF ~Truthy(execution_type) \/ execution_type \notin {"operation", "workflow"}
             THEN Return(Failure(<<"Invalid execution_type. Must be 'operation' or 'workflow'.">>))
             ELSE IF ~Truthy(uuid)
             THEN Return(Failure(<<"Missing required parameter: uuid">>))
             ELSE Await([BaseCall EXCEPT
                            !.op = IF execution_type = "operation"
                                   THEN "execute_operation" ELSE "execute_workflow",
                            !.uuid = uuid, !.inputs = inputs])

execute_Start(request, arguments) ==
    IF ~IsDict(arguments) THEN Raise(AttributeErrorText(arguments))
    ELSE LET execution_type == Get(request.execution_type)
             uuid == Get(request.uuid)
             inputs == GetDefault(request.inputs, EmptyDict)
         IN  IF ~Truthy(execution_type) \/ execution_type \notin {"operation", "workflow"}
             THEN Return(Failure(<<"Invalid execution_type. Must be 'operation' or 'workflow'.">>))
             ELSE IF ~Truthy(uuid)
             THEN Return(Failure(<<"Missing required parameter: uuid">>))
             ELSE IF ~IsDict(inputs)
             THEN Return(Failure(<<"Invalid inputs type. Must be a dictionary.">>))
             ELSE Await([BaseCall EXCEPT
                            !.op = IF execution_type = "operation"
                                   THEN "execute_operation" ELSE "execute_workflow",
                            !.uuid = uuid, !.inputs = inputs])

execute_Finish_Reraises(request, out) ==
    IF out.k = "raise" THEN Raise(out.text)
    ELSE IF request.execution_type = "operation"
    THEN Return([BasePayload EXCEPT !.success = "True", !.output = out.value])
    ELSE IF out.success = "False"
    THEN Return([Failure(IF Truthy(out.error) THEN <<out.error>>
                         ELSE <<"Workflow execution failed.">>) EXCEPT
                    !.output = out.value,
                    !.suggested_next_actions =
                        get_execute_tool_failure_suggested_next_actions])
    ELSE Return([BasePayload EXCEPT !.success = "True", !.output = out.value])

execute_Finish(request, out) ==
    IF out.k = "raise"
    THEN Return([Failure(<<"Error during execution: ", out.text>>) EXCEPT
                    !.suggested_next_actions =
                        get_execute_tool_failure_suggested_next_actions])
    ELSE IF request.execution_type = "operation"
    THEN Return([BasePayload EXCEPT !.success = "True", !.output = out.value])
    ELSE IF out.success = "False"
    THEN Return([Failure(IF Truthy(out.error) THEN <<out.error>>
                         ELSE <<"Workflow execution failed.">>) EXCEPT
                    !.output = out.value,
                    !.suggested_next_actions =
                        get_execute_tool_failure_suggested_next_actions])
    ELSE Return([BasePayload EXCEPT !.success = "True", !.output = out.value])

FEEDBACK_ENDPOINT_URL ==
    "https://xze2r4egy7.execute-api.eu-west-1.amazonaws.com/dev/workflow-feedback"

submit_feedback_Start_NoTypeCheck(request, arguments, env) ==
    IF ~IsDict(arguments) THEN Raise(AttributeErrorText(arguments))
    ELSE LET feedback_data == Get(request.feedback_data)
         IN  IF ~Truthy(feedback_data)
             THEN Return(Failure(<<"Missing or invalid 'feedback_data' parameter.">>))
             ELSE Await([BaseCall EXCEPT
                            !.op = "post",
                            !.url = GetDefault(env.FEEDBACK_ENDPOINT_URL,
                                               FEEDBACK_ENDPOINT_URL),
                            !.json = feedback_data,
                            !.json_jentic_uuid =
                                IF Truthy(Get(env.JENTIC_UUID))
                                THEN env.JENTIC_UUID
                                ELSE request.fb_jentic_uuid])

submit_feedback_Start(request, arguments, env) ==
    IF ~IsDict(arguments) THEN Raise(AttributeErrorText(arguments))
    ELSE LET feedback_data == Get(request.feedback_data)
         IN  IF ~Truthy(feedback_data) \/ ~IsDict(feedback_data)
             THEN Return(Failure(<<"Missing or invalid 'feedback_data' parameter.">>))
             ELSE Await([BaseCall EXCEPT
                            !.op = "post",
                            !.url = GetDefault(env.FEEDBACK_ENDPOINT_URL,
                                               FEEDBACK_ENDPOINT_URL),
                            !.json = feedback_data,
                            !.json_jentic_uuid =
                                IF Truthy(Get(env.JENTIC_UUID))
                                THEN env.JENTIC_UUID
                                ELSE request.fb_jentic_uuid])

raise_for_status_Only200(out) == out.k = "return" /\ out.status_code # "200"

\* response.raise_for_status() raises HTTPStatusError unless the status is 2xx
raise_for_status(out) == out.k = "return" /\ out.status_code \notin {"200", "204"}

submit_feedback_Finish_Retries(request, out) ==
    IF out.k = "raise" /\ out.cls = "RequestError"
    THEN Await([BaseCall EXCEPT !.op = "post", !.url = FEEDBACK_ENDPOINT_URL,
                                !.json = request.feedback_data])
    ELSE IF out.k = "raise"
    THEN Return(Failure(<<"An unexpected error occurred while submitting feedback: ",
                          out.text>>))
    ELSE IF raise_for_status(out)
    THEN Return(Failure(<<"Failed to submit feedback, server returned error: ",
                          out.status_code, " - ", out.text>>))
    ELSE Return([BasePayload EXCEPT
                    !.success = "True",
                    !.message = <<"Feedback submitted successfully. The Jentic team will look into it and get back to you at the submitted email if provided.">>])

submit_feedback_Finish_Coalesced(request, out) ==
    IF out.k = "raise"
    THEN Return(Failure(<<"An unexpected error occurred while submitting feedback: ",
                          out.text>>))
    ELSE IF raise_for_status(out)
    THEN Return(Failure(<<"An unexpected error occurred while submitting feedback: ",
                          out.status_code, " - ", out.text>>))
    ELSE Return([BasePayload EXCEPT
                    !.success = "True",
                    !.message = <<"Feedback submitted successfully. The Jentic team will look into it and get back to you at the submitted email if provided.">>])

submit_feedback_Finish(request, out) ==
    IF out.k = "raise" /\ out.cls = "RequestError"
    THEN Return(Failure(<<"Failed to submit feedback due to network/request issue: ",
                          out.text>>))
    ELSE IF out.k = "raise"
    THEN Return(Failure(<<"An unexpected error occurred while submitting feedback: ",
                          out.text>>))
    ELSE IF raise_for_status(out)
    THEN Return(Failure(<<"Failed to submit feedback, server returned error: ",
                          out.status_code, " - ", out.text>>))
    ELSE Return([BasePayload EXCEPT
                    !.success = "True",
                    !.message = <<"Feedback submitted successfully. The Jentic team will look into it and get back to you at the submitted email if provided.">>])

----------------------------------------------------------------------------
(* The tool registry (mcp/tools.py) *)

get_all_tool_definitions ==
    << [name |-> "search_apis",
        description |-> "Search for available actions or information based on what the user wants to do",
        required |-> <<"capability_description">>],
       [name |-> "load_execution_info",
        description |-> "Get more details about a specific action before confirming you want to run it",
        required |-> <<"workflow_uuids", "operation_uuids">>],
       [name |-> "execute",
        description |-> "Perform the chosen action for the user using the provided details (if any are needed).",
        required |-> <<"execution_type", "uuid", "inputs">>] >>

----------------------------------------------------------------------------
(* The request handler (JSONRPCHandler) *)

MethodNotFound == -32601
InternalError == -32603

NoResult == [shape |-> "none"]

\* handle_request returned None
NoResponse ==
    [jsonrpc |-> Absent, id |-> Absent, kind |-> "none", code |-> 0,
     message |-> <<>>, result |-> NoResult]

\* {"jsonrpc": "2.0", "id": id, "result": result}
ResultResponse(id, result) ==
    [jsonrpc |-> "2.0", id |-> id, kind |-> "result", code |-> 0,
     message |-> <<>>, result |-> result]

\* {"jsonrpc": "2.0", "id": id, "error": {"code": code, "message": message}}
ErrorResponse_NullId(id, code, message) ==
    [jsonrpc |-> "2.0", id |-> None, kind |-> "error", code |-> code,
     message |-> message, result |-> NoResult]

ErrorResponse(id, code, message) ==
    [jsonrpc |-> "2.0", id |-> id, kind |-> "error", code |-> code,
     message |-> message, result |-> NoResult]

\* a literal of Python as json.dumps writes it
JsonLiteral(v) ==
    IF v = "True" THEN "true"
    ELSE IF v = "False" THEN "false"
    ELSE IF v = None THEN "null"
    ELSE v

JsonEscape_Replace(v) == IF v = "caf<e9>" THEN "caf?" ELSE v

\* a string as json.dumps writes it (ensure_ascii): a character outside ASCII
\* becomes its \u escape; "caf<e9>" stands for the text whose last letter is
\* U+00E9
JsonEscape(v) == IF v = "caf<e9>" THEN "caf\\u00e9" ELSE v

\* json.loads on a literal and on a string
PyLiteral(v) ==
    IF v = "true" THEN "True"
    ELSE IF v = "false" THEN "False"
    ELSE IF v = "null" THEN None
    ELSE v

JsonUnescape(v) == IF v = "caf\\u00e9" THEN "caf<e9>" ELSE v

\* json.dumps(actual_result, indent=2)
JsonDumps(payload) ==
    [payload EXCEPT !.success = JsonLiteral(payload.success),
                    !.query = JsonEscape(payload.query),
                    !.operation_uuids = JsonLiteral(payload.operation_uuids),
                    !.workflow_uuids = JsonLiteral(payload.workflow_uuids)]

\* json.loads(text), what a client reads out of result.content[0].text
JsonLoads(text) ==
    [text EXCEPT !.success = PyLiteral(text.success),
                 !.query = JsonUnescape(text.query),
                 !.operation_uuids = PyLiteral(text.operation_uuids),
                 !.workflow_uuids = PyLiteral(text.workflow_uuids)]

\* what a step of the handler comes to: a response (with the exception an
\* except clause caught on the way, if any), or a suspension in a remote call
Returned(r, adapter, e) ==
    [k |-> "return", resp |-> r, invoked |-> adapter, caught |-> e, call |-> NoCall]
Suspended(adapter, c) ==
    [k |-> "call", resp |-> NoResponse, invoked |-> adapter, caught |-> NoExc, call |-> c]

\* the except clause of handle_request
InternalErrorResponse(request_id, e) ==
    Returned(ErrorResponse(request_id, InternalError, <<"Internal error: ", e>>), <<>>, e)

handle_initialize_Sticky(data, params, request_id) ==
    IF ~IsDict(params) THEN InternalErrorResponse(request_id, AttributeErrorText(params))
    ELSE LET client_info == GetDefault(data.clientInfo, EmptyDict)
             protocol_version ==
                 GetDefault(IF initialized # <<>> THEN initialized[1]
                            ELSE data.protocolVersion, "2024-11-05")
         IN  IF ~IsDict(client_info)
             THEN InternalErrorResponse(request_id, AttributeErrorText(client_info))
             ELSE Returned(ResultResponse(request_id,
                              [shape |-> "initialize",
                               protocolVersion |-> protocol_version,
                               capabilities |-> [tools |-> EmptyDict],
                               serverInfo |-> [name |-> "jentic",
                                               version |-> "<version>"]]),
                           <<>>, NoExc)

handle_initialize(data, params, request_id) ==
    IF ~IsDict(params) THEN InternalErrorResponse(request_id, AttributeErrorText(params))
    ELSE LET client_info == GetDefault(data.clientInfo, EmptyDict)
             protocol_version == GetDefault(data.protocolVersion, "2024-11-05")
         IN  IF ~IsDict(client_info)
             THEN InternalErrorResponse(request_id, AttributeErrorText(client_info))
             ELSE Returned(ResultResponse(request_id,
                              [shape |-> "initialize",
                               protocolVersion |-> protocol_version,
                               capabilities |-> [tools |-> EmptyDict],
                               serverInfo |-> [name |-> "jentic",
                                               version |-> "<version>"]]),
                           <<>>, NoExc)

handle_tools_list(request_id) ==
    Returned(ResultResponse(request_id,
                [shape |-> "tools",
                 tools |-> [i \in DOMAIN get_all_tool_definitions |->
                               [name |-> get_all_tool_definitions[i].name,
                                description |-> get_all_tool_definitions[i].description,
                                inputSchema |->
                                    [type |-> "object",
                                     required |-> get_all_tool_definitions[i].required]]]]),
             <<>>, NoExc)

\* the tool name -> adapter method table of _handle_tools_call
tool_handlers_WithCodeSample ==
    [search_apis |-> "search_api_capabilities",
     load_execution_info |-> "generate_runtime_config",
     execute |-> "execute",
     submit_feedback |-> "submit_feedback",
     generate_code_sample |-> "submit_feedback"]

tool_handlers ==
    [search_apis |-> "search_api_capabilities",
     load_execution_info |-> "generate_runtime_config",
     execute |-> "execute",
     submit_feedback |-> "submit_feedback"]

AdapterStart(method, data, arguments, env) ==
    CASE method = "search_api_capabilities" -> search_api_capabilities_Start(data, arguments)
      [] method = "generate_runtime_config" -> generate_runtime_config_Start(data, arguments)
      [] method = "execute" -> execute_Start(data, arguments)
      [] method = "submit_feedback" -> submit_feedback_Start(data, arguments, env)

AdapterFinish(method, data, out) ==
    CASE method = "search_api_capabilities" -> search_api_capabilities_Finish(data, out)
      [] method = "generate_runtime_config" -> generate_runtime_config_Finish(data, out)
      [] method = "execute" -> execute_Finish(data, out)
      [] method = "submit_feedback" -> submit_feedback_Finish(data, out)

\* the try block of _handle_tools_call from the adapter's result on
ToolOutcome_FailurePayload(request_id, method, r) ==
    IF r.k = "call" THEN Suspended(<<method>>, r.call)
    ELSE Returned(ResultResponse(request_id,
                     [shape |-> "content",
                      content |-> <<[type |-> "text",
                                     text |-> JsonDumps(IF r.k = "raise"
                                                        THEN Failure(<<r.exc>>)
                                                        ELSE r.payload)]>>]),
                  <<method>>, IF r.k = "raise" THEN r.exc ELSE NoExc)

ToolOutcome(request_id, method, r) ==
    IF r.k = "raise"
    THEN Returned(ErrorResponse(request_id, InternalError,
                                <<"Tool execution error: ", r.exc>>),
                  <<method>>, r.exc)
    ELSE IF r.k = "call" THEN Suspended(<<method>>, r.call)
    ELSE Returned(ResultResponse(request_id,
                     [shape |-> "content",
                      content |-> <<[type |-> "text", text |-> JsonDumps(r.payload)]>>]),
                  <<method>>, NoExc)

handle_tools_call(data, params, request_id, env) ==
    IF ~IsDict(params) THEN InternalErrorResponse(request_id, AttributeErrorText(params))
    ELSE LET tool_name == Get(data.name)
             arguments == GetDefault(data.arguments, EmptyDict)
         IN  IF ~Hashable(tool_name)
             THEN InternalErrorResponse(request_id, "unhashable type: 'list'")
             ELSE IF tool_name \notin DOMAIN tool_handlers
             THEN Returned(ErrorResponse(request_id, MethodNotFound,
                                         <<"Tool not found: ", Str(tool_name)>>),
                           <<>>, NoExc)
             ELSE ToolOutcome(request_id, tool_handlers[tool_name],
                              AdapterStart(tool_handlers[tool_name], data, arguments, env))

\* the branch of handle_request for notifications/initialized
handle_initialized_notification_Acks(request_id) ==
    Returned(ResultResponse(request_id, [shape |-> "ack"]), <<>>, NoExc)

handle_initialized_notification(request_id) == Returned(NoResponse, <<>>, NoExc)

handle_ping_RequiresInitialize(request_id) ==
    IF initialized = <<>>
    THEN Returned(ErrorResponse(request_id, InternalError, <<"Not initialized">>),
                  <<>>, NoExc)
    ELSE Returned(ResultResponse(request_id, [shape |-> "pong", pong |-> "True"]),
                  <<>>, NoExc)

\* the branch of handle_request for ping
handle_ping(request_id) ==
    Returned(ResultResponse(request_id, [shape |-> "pong", pong |-> "True"]), <<>>, NoExc)

\* the else branch of handle_request
handle_unknown_method_Anonymous(method, request_id) ==
    Returned(ErrorResponse(request_id, MethodNotFound, <<"Method not found">>),
             <<>>, NoExc)

handle_unknown_method(method, request_id) ==
    Returned(ErrorResponse(request_id, MethodNotFound,
                           <<"Method not found: ", Str(method)>>),
             <<>>, NoExc)

\* handle_request up to its first suspension
handle_request(data, env) ==
    LET method == Get(data.method)
        params == GetDefault(data.params, EmptyDict)
        request_id == Get(data.id)
    IN  CASE method = "initialize" -> handle_initialize(data, params, request_id)
          [] method = "notifications/initialized" ->
                handle_initialized_notification(request_id)
          [] method = "tools/list" -> handle_tools_list(request_id)
          [] method = "tools/call" -> handle_tools_call(data, params, request_id, env)
          [] method = "ping" -> handle_ping(request_id)
          [] OTHER -> handle_unknown_method(method, request_id)

\* handle_request from the outcome of the remote call on
handle_request_resume(data, out) ==
    LET method == tool_handlers[data.name]
    IN  ToolOutcome(Get(data.id), method, AdapterFinish(method, data, out))

----------------------------------------------------------------------------
(* The Streamable HTTP transport.  The body of a POST is unparseable, a    *)
(* JSON array, or a JSON object: its jsonrpc entry and, in data, the       *)
(* entries handle_request reads.                                           *)

ConnIds == 1..MaxConns

Body(json, jsonrpc, data) == [json |-> json, jsonrpc |-> jsonrpc, data |-> data]

NoBody == Body("none", Absent, BaseRequest)

\* the {} that stands in for data when request.json() did not return
EmptyObject == Body("object", Absent, BaseRequest)

HttpShapes ==
    {[BaseRequest EXCEPT !.method = m] :
        m \in {Absent, "", "notifications/initialized", "ping", "resources/list"}}
    \cup {[BaseRequest EXCEPT !.method = "initialize", !.params = p] : p \in {None, Mapping}}
    \cup {[BaseRequest EXCEPT !.method = "tools/call", !.params = None]}
    \cup {[ToolsCall EXCEPT !.name = "generate_code_sample"]}
    \cup {[ToolsCall EXCEPT !.name = "search_apis", !.arguments = Mapping,
                            !.capability_description = q] : q \in {Absent, "spotify music"}}

\* requests carry the id "1"; a notification and a ping come without an id too
HttpRequests ==
    {[s EXCEPT !.id = "1"] : s \in HttpShapes}
    \cup {s \in HttpShapes : s.method \in {"notifications/initialized", "ping"}}

Bodies ==
    {Body("invalid", Absent, BaseRequest), Body("array", Absent, BaseRequest)}
    \cup {Body("object", j, [BaseRequest EXCEPT !.method = "ping", !.id = "1"]) :
             j \in {Absent, "1.0"}}
    \cup {Body("object", "2.0", d) : d \in HttpRequests}

\* str(e) of the error request.json() raises on a body that is no JSON
JSONDecodeErrorText == "Expecting value: line 1 column 1 (char 0)"

NoReply == [status_code |-> 0, detail |-> Absent, body |-> NoResponse]

JSONResponse(content, status_code) ==
    [status_code |-> status_code, detail |-> Absent, body |-> content]

\* an HTTPException leaving the route: FastAPI answers {"detail": detail}
HTTPException(status_code, detail) ==
    [k |-> "http", resp |-> NoResponse, invoked |-> <<>>, caught |-> NoExc,
     call |-> NoCall,
     reply |-> [status_code |-> status_code, detail |-> detail, body |-> NoResponse]]

handle_jsonrpc_request(data, env) ==
    IF data.json # "object" \/ data.jsonrpc = Absent \/ data.jsonrpc # "2.0"
    THEN HTTPException(400, "Invalid JSON-RPC request")
    ELSE IF ~Truthy(Get(data.data.method))
    THEN HTTPException(400, "Missing method in JSON-RPC request")
    ELSE handle_request(data.data, env)

create_error_response_ParseError(data, error_message, error_code) ==
    ErrorResponse(IF data.json = "object" THEN Get(data.data.id) ELSE None,
                  -32700, error_message)

create_error_response(data, error_message, error_code) ==
    ErrorResponse(IF data.json = "object" THEN Get(data.data.id) ELSE None,
                  error_code, error_message)

Broadcast_FirstOnly(connections, response) ==
    [c \in DOMAIN connections |->
        IF \A d \in DOMAIN connections : c <= d
        THEN [message_queue |-> Append(connections[c].message_queue, response)]
        ELSE connections[c]]

\* the for loop of streamable_http_post: put the response on every queue
Broadcast(connections, response) ==
    [c \in DOMAIN connections |->
        [message_queue |-> Append(connections[c].message_queue, response)]]

\* what an event_stream last did: nothing yet ("none"), yielded the initial
\* notification ("initialized") or a message from its queue ("message"), or
\* ended, and why
Event(ev, message, why) == [ev |-> ev, message |-> message, why |-> why]

NoEvent == Event("none", NoResponse, Absent)

\* how an event_stream comes to its end: request.is_disconnected() is true, a
\* CancelledError is caught in the loop, another exception is raised and
\* logged, or the generator is closed while suspended at a yield
EndReasons == {"disconnected", "cancelled", "error", "closed"}

RemoveConnection_Keeps(connections, connection_id) == connections

\* the finally clause of event_stream
RemoveConnection(connections, connection_id) ==
    [d \in DOMAIN connections \ {connection_id} |-> connections[d]]

InitTransport ==
    /\ active_connections = [c \in {} |-> [message_queue |-> <<>>]]
    /\ stream = [c \in ConnIds |-> NoEvent]
    /\ posted = NoBody
    /\ http = NoReply

----------------------------------------------------------------------------
(* The SDK's configuration (jentic/lib/cfg.py).  A float is the text of    *)
(* its repr.                                                               *)

_ENDPOINTS ==
    [prod |-> [core_api_url |-> "https://NOT-YET",
               directory_url |-> "https://api.jentic.com/api/v1/"],
     qa |-> [core_api_url |-> "https://api-gw.qa1.eu-west-1.jenticdev.net/api/v1/",
             directory_url |-> "https://directory-api.qa1.eu-west-1.jenticdev.net/api/v1/"]]

\* the dataclass with the defaults of its fields
AgentConfig(agent_api_key, environment) ==
    [k |-> "return", exc |-> NoExc, text |-> <<>>,
     agent_api_key |-> agent_api_key,
     user_agent |-> "Jentic/1.0 Agent (Python)",
     environment |-> environment,
     connect_timeout |-> "10.0", read_timeout |-> "10.0",
     write_timeout |-> "120.0", pool_timeout |-> "120.0",
     max_connections |-> "5", max_keepalive_connections |-> "5"]

NoConfig == [AgentConfig(Absent, Absent) EXCEPT !.k = "none"]

ConfigError(cls, text) == [NoConfig EXCEPT !.k = "raise", !.exc = cls, !.text = text]

endpoints_cfg(self) ==
    IF self.environment \in DOMAIN _ENDPOINTS THEN _ENDPOINTS[self.environment]
    ELSE _ENDPOINTS["prod"]

core_api_url(self) == endpoints_cfg(self).core_api_url

directory_url(self) == endpoints_cfg(self).directory_url

\* os.getenv(name, default)
getenv(e, name, default) == IF e[name] = Absent THEN default ELSE e[name]

from_env_EnvironmentFirst(e) ==
    LET agent_api_key == getenv(e, "JENTIC_AGENT_API_KEY", None)
        environment == getenv(e, "JENTIC_ENVIRONMENT", "prod")
    IN  IF environment \notin DOMAIN _ENDPOINTS
        THEN ConfigError("JenticEnvironmentError", <<"Invalid environment: ", environment>>)
        ELSE IF agent_api_key \in {None, ""}
        THEN ConfigError("MissingAgentKeyError", <<"JENTIC_AGENT_API_KEY is not set">>)
        ELSE AgentConfig(agent_api_key, environment)

from_env(e) ==
    LET agent_api_key == getenv(e, "JENTIC_AGENT_API_KEY", None)
        environment == getenv(e, "JENTIC_ENVIRONMENT", "prod")
    IN  IF agent_api_key \in {None, ""}
        THEN ConfigError("MissingAgentKeyError", <<"JENTIC_AGENT_API_KEY is not set">>)
        ELSE IF environment \notin DOMAIN _ENDPOINTS
        THEN ConfigError("JenticEnvironmentError", <<"Invalid environment: ", environment>>)
        ELSE AgentConfig(agent_api_key, environment)

TimeoutVars ==
    {"JENTIC_CONNECT_TIMEOUT", "JENTIC_READ_TIMEOUT", "JENTIC_WRITE_TIMEOUT",
     "JENTIC_POOL_TIMEOUT"}

\* the environments a process can be started in: a variable is unset or holds
\* a text
Environs ==
    {[n \in {"JENTIC_AGENT_API_KEY", "JENTIC_ENVIRONMENT"} \cup TimeoutVars |->
         CASE n = "JENTIC_AGENT_API_KEY" -> key
           [] n = "JENTIC_ENVIRONMENT" -> environment
           [] OTHER -> t[n]] :
        key \in {Absent, "", "ak_19814bi2f98jhwg"},
        environment \in {Absent, "", "prod", "qa", "invalid"},
        t \in [TimeoutVars -> {Absent, "", " ", "1.5", "130"}]}

NoEnviron ==
    [n \in {"JENTIC_AGENT_API_KEY", "JENTIC_ENVIRONMENT"} \cup TimeoutVars |-> Absent]

InitConfig ==
    /\ sdk_environ = NoEnviron
    /\ config = NoConfig

----------------------------------------------------------------------------
(* Concurrent requests: every call of handle_request is a coroutine with   *)
(* locals of its own (data, method, params, request_id); the handler       *)
(* object holds the adapter and nothing else.                              *)

Tasks == {"a", "b", "c"}

\* the requests the tasks are given
TaskRequests ==
    {[BaseRequest EXCEPT !.method = "initialize", !.id = "1", !.params = Mapping,
                         !.protocolVersion = "2025-03-26"],
     [BaseRequest EXCEPT !.method = "ping", !.id = "1"],
     [BaseRequest EXCEPT !.method = "tools/list", !.id = "2"],
     [ToolsCall EXCEPT !.id = "1", !.name = "search_apis", !.arguments = Mapping,
                       !.capability_description = "spotify music"],
     [ToolsCall EXCEPT !.id = "2", !.name = "search_apis", !.arguments = Mapping,
                       !.capability_description = "caf<e9>"],
     [ToolsCall EXCEPT !.id = "2", !.name = "execute", !.arguments = Mapping,
                       !.execution_type = "operation", !.uuid = "uuid-1",
                       !.inputs = SomeDict]}

\* a task that has not been given a request.  seen and overlapped are history:
\* the initialize requests answered before the task got its request, and the
\* tasks that were suspended in a remote call when its own call completed
NoTask ==
    [pc |-> "idle", req |-> BaseRequest, pending |-> NoCall, outcome |-> NoOutcome,
     resp |-> NoResponse, seen |-> <<>>, overlapped |-> {}]

InitTasks == tasks = [t \in Tasks |-> NoTask]

TaskRequest_Shared(t) ==
    tasks[CHOOSE u \in Tasks : tasks[u].pc = "awaiting"].req

\* data, the local of task t's call of handle_request
TaskRequest(t) == tasks[t].req

----------------------------------------------------------------------------
(* The state machine *)

NoRequest == BaseRequest

InitHandler ==
    /\ environ \in {[JENTIC_UUID |-> u, FEEDBACK_ENDPOINT_URL |-> f] :
                       u \in {Absent, "env-uuid"},
                       f \in {Absent, "https://test.feedback.endpoint/dev/workflow-feedback"}}
    /\ pc = "idle"
    /\ req = NoRequest
    /\ pending = NoCall
    /\ calls = <<>>
    /\ outcome = NoOutcome
    /\ invoked = <<>>
    /\ caught = NoExc
    /\ resp = NoResponse
    /\ served = 0
    /\ initialized = <<>>

Init == InitHandler /\ InitTransport /\ InitConfig /\ InitTasks

\* a transport hands a request to handle_request
Receive(data) ==
    /\ pc = "idle"
    /\ served < MaxRequests
    /\ LET r == handle_request(data, environ)
       IN  /\ req' = data
           /\ invoked' = r.invoked
           /\ caught' = r.caught
           /\ resp' = r.resp
           /\ pending' = r.call
           /\ calls' = IF r.k = "call" THEN <<r.call>> ELSE <<>>
           /\ pc' = IF r.k = "call" THEN "awaiting" ELSE "done"
    /\ UNCHANGED <<environ, outcome, served, initialized>>
    /\ UNCHANGED <<tvars, xvars>>

\* the remote call the handler is suspended in completes
RemoteReply(out) ==
    /\ pc = "awaiting"
    /\ out \in Outcomes(pending.op)
    /\ LET r == handle_request_resume(req, out)
       IN  /\ caught' = r.caught
           /\ resp' = r.resp
           \* an adapter method that awaits a further call suspends again
           /\ pending' = r.call
           /\ calls' = IF r.k = "call" THEN Append(calls, r.call) ELSE calls
           /\ pc' = IF r.k = "call" THEN "awaiting" ELSE "done"
    /\ outcome' = out
    /\ UNCHANGED <<environ, req, invoked, served, initialized>>
    /\ UNCHANGED <<tvars, xvars>>

\* the transport takes the response; the handler is free for the next request
Deliver ==
    /\ pc = "done"
    /\ pc' = "idle"
    /\ req' = NoRequest
    /\ calls' = <<>>
    /\ outcome' = NoOutcome
    /\ invoked' = <<>>
    /\ caught' = NoExc
    /\ resp' = NoResponse
    /\ served' = served + 1
    /\ initialized' = IF req.method = "initialize"
                      THEN Append(initialized, req.protocolVersion)
                      ELSE initialized
    /\ UNCHANGED <<environ, pending>>
    /\ UNCHANGED <<tvars, xvars>>

AllOutcomes ==
    UNION {Outcomes(op) : op \in {"search_api_capabilities", "load_execution_info",
                                  "execute_operation", "execute_workflow", "post"}}

Next ==
    \/ \E data \in Requests : Receive(data)
    \/ \E out \in AllOutcomes : RemoteReply(out)
    \/ Deliver

Spec == Init /\ [][Next]_vars

\* POST /: streamable_http_post up to the await of a remote call, or to its end
Post(body) ==
    /\ pc = "idle"
    /\ served < MaxPosts
    /\ posted' = body
    /\ IF body.json = "invalid"
       THEN /\ req' = NoRequest
            /\ invoked' = <<>>
            /\ caught' = JSONDecodeErrorText
            /\ resp' = NoResponse
            /\ pending' = NoCall
            /\ calls' = <<>>
            /\ pc' = "done"
            /\ http' = JSONResponse(
                          create_error_response(EmptyObject,
                              <<"Internal error: ", JSONDecodeErrorText>>, InternalError),
                          500)
            /\ UNCHANGED active_connections
       ELSE LET r == handle_jsonrpc_request(body, environ)
            IN  /\ req' = body.data
                /\ invoked' = r.invoked
                /\ caught' = r.caught
                /\ resp' = r.resp
                /\ pending' = r.call
                /\ calls' = IF r.k = "call" THEN <<r.call>> ELSE <<>>
                /\ pc' = IF r.k = "call" THEN "awaiting" ELSE "done"
                /\ http' = CASE r.k = "http" -> r.reply
                             [] r.k = "call" -> NoReply
                             [] OTHER -> JSONResponse(r.resp, 200)
                /\ active_connections' =
                       IF r.k = "return" THEN Broadcast(active_connections, r.resp)
                       ELSE active_connections
    /\ UNCHANGED <<environ, outcome, served, initialized, stream, xvars>>

\* the remote call the POST is suspended in completes: the rest of
\* streamable_http_post
PostReply(out) ==
    /\ pc = "awaiting"
    /\ out \in Outcomes(pending.op)
    /\ LET r == handle_request_resume(req, out)
       IN  /\ caught' = r.caught
           /\ resp' = r.resp
           /\ pending' = r.call
           /\ calls' = IF r.k = "call" THEN Append(calls, r.call) ELSE calls
           /\ pc' = IF r.k = "call" THEN "awaiting" ELSE "done"
           /\ active_connections' =
                  IF r.k = "call" THEN active_connections
                  ELSE Broadcast(active_connections, r.resp)
           /\ http' = IF r.k = "call" THEN NoReply ELSE JSONResponse(r.resp, 200)
    /\ outcome' = out
    /\ UNCHANGED <<environ, req, invoked, served, initialized, stream, posted, xvars>>

\* the HTTP reply goes out; the next POST can come
PostDone ==
    /\ pc = "done"
    /\ pc' = "idle"
    /\ req' = NoRequest
    /\ calls' = <<>>
    /\ outcome' = NoOutcome
    /\ invoked' = <<>>
    /\ caught' = NoExc
    /\ resp' = NoResponse
    /\ posted' = NoBody
    /\ http' = NoReply
    /\ served' = served + 1
    /\ initialized' = IF req.method = "initialize"
                      THEN Append(initialized, req.protocolVersion)
                      ELSE initialized
    /\ UNCHANGED <<environ, pending, active_connections, stream, xvars>>

\* GET /: event_stream starts, stores its connection and yields the initial
\* notification
Connect(c) ==
    \* a fresh uuid4: no running stream has this id
    /\ stream[c].ev \in {"none", "ended"}
    /\ active_connections' =
           [d \in DOMAIN active_connections \cup {c} |->
               IF d = c THEN [message_queue |-> <<>>] ELSE active_connections[d]]
    /\ stream' = [stream EXCEPT ![c] = Event("initialized", NoResponse, Absent)]
    /\ UNCHANGED <<hvars, posted, http, xvars>>

\* event_stream takes a message from its queue and yields it
StreamSend(c) ==
    /\ stream[c].ev \in {"initialized", "message"}
    /\ c \in DOMAIN active_connections
    /\ active_connections[c].message_queue # <<>>
    /\ stream' = [stream EXCEPT ![c] =
                     Event("message", Head(active_connections[c].message_queue), Absent)]
    /\ active_connections' =
           [active_connections EXCEPT ![c].message_queue = Tail(@)]
    /\ UNCHANGED <<hvars, posted, http, xvars>>

\* event_stream comes to its end (the client is gone, the task is cancelled, an
\* error is raised or the generator is closed) and its finally clause removes
\* the connection
StreamEnd(c, why) ==
    /\ stream[c].ev \in {"initialized", "message"}
    /\ active_connections' = RemoveConnection(active_connections, c)
    /\ stream' = [stream EXCEPT ![c] = Event("ended", NoResponse, why)]
    /\ UNCHANGED <<hvars, posted, http, xvars>>

NextHttp ==
    \/ \E body \in Bodies : Post(body)
    \/ \E out \in AllOutcomes : PostReply(out)
    \/ PostDone
    \/ \E c \in ConnIds : Connect(c)
    \/ \E c \in ConnIds : StreamSend(c)
    \/ \E c \in ConnIds, why \in EndReasons : StreamEnd(c, why)

SpecHttp == Init /\ [][NextHttp]_vars

\* a process of the SDK starts in some environment
InitCfg ==
    /\ InitHandler
    /\ environ = [JENTIC_UUID |-> Absent, FEEDBACK_ENDPOINT_URL |-> Absent]
    /\ InitTransport
    /\ sdk_environ \in Environs
    /\ config = NoConfig
    /\ InitTasks

\* AgentConfig.from_env() is called
FromEnv ==
    /\ config = NoConfig
    /\ config' = from_env(sdk_environ)
    /\ UNCHANGED <<hvars, tvars, sdk_environ, tasks>>

NextCfg == FromEnv

SpecCfg == InitCfg /\ [][NextCfg]_vars

\* a transport starts handle_request(data) in task t; it runs to its end or to
\* the await of its remote call
TaskReceive(t, data) ==
    /\ tasks[t].pc = "idle"
    /\ LET r == handle_request(data, environ)
       IN  /\ tasks' = [tasks EXCEPT ![t] =
                  [NoTask EXCEPT !.pc = IF r.k = "call" THEN "awaiting" ELSE "done",
                                 !.req = data,
                                 !.pending = r.call,
                                 !.resp = r.resp,
                                 !.seen = initialized]]
           /\ initialized' = IF r.k = "return" /\ data.method = "initialize"
                             THEN Append(initialized, data.protocolVersion)
                             ELSE initialized
    /\ UNCHANGED <<environ, pc, req, pending, calls, outcome, invoked, caught, resp,
                   served>>
    /\ UNCHANGED <<tvars, cvars>>

\* the remote call task t is suspended in completes and the task runs on
TaskReply(t, out) ==
    /\ tasks[t].pc = "awaiting"
    /\ out \in Outcomes(tasks[t].pending.op)
    /\ LET r == handle_request_resume(TaskRequest(t), out)
       IN  tasks' = [tasks EXCEPT ![t] =
               [@ EXCEPT !.pc = IF r.k = "call" THEN "awaiting" ELSE "done",
                         !.pending = r.call,
                         !.outcome = out,
                         !.resp = r.resp,
                         !.overlapped =
                             {u \in Tasks \ {t} : tasks[u].pc = "awaiting"}]]
    /\ UNCHANGED <<hvars, tvars, cvars>>

NextTasks ==
    \/ \E t \in Tasks, data \in TaskRequests : TaskReceive(t, data)
    \/ \E t \in Tasks, out \in AllOutcomes : TaskReply(t, out)

SpecTasks == Init /\ [][NextTasks]_vars

----------------------------------------------------------------------------
(* Properties *)

Methods == {"initialize", "notifications/initialized", "tools/list", "tools/call", "ping"}
ToolNames == {"search_apis", "load_execution_info", "execute", "submit_feedback"}

Contains(message, text) == \E i \in DOMAIN message : message[i] = text

Answered == pc = "done"
IsToolsCall == req.method = "tools/call"
IsResult == resp.kind = "result"
IsError == resp.kind = "error"
\* the payload of a tools/call result, parsed back from result.content[0].text
IsToolResult == IsResult /\ resp.result.shape = "content"
ToolPayload == resp.result.content[1].text
IsFailurePayload ==
    IsToolResult /\ ToolPayload.success = "false" /\ ToolPayload.message # <<>>
NoAdapterWork == invoked = <<>> /\ calls = <<>>

\* C1 as stated: every answered request with a non-null id, whatever its
\* method, has a response carrying the same id.
C1_Original ==
    (Answered /\ Get(req.id) # None) => ((IsResult \/ IsError) /\ resp.id = req.id)

\* C1, amended: every answered request with a non-null id whose method is not
\* notifications/initialized has one response, a result or an error, and the
\* response's id is the request's id.
C1_ResponseEchoesId ==
    (Answered /\ Get(req.id) # None /\ req.method # "notifications/initialized")
        => ((IsResult \/ IsError) /\ resp.id = req.id)

C1_Witness ==
    Answered /\ req.id = "2" /\ IsToolsCall /\ caught # NoExc /\ IsError /\ resp.id = "2"

\* C2: when an exception reaches an except clause of the handler, whatever the
\* method, the handler returns an error with code -32603 whose message holds
\* the exception's text.
C2_ExceptionsBecomeInternalErrors ==
    (Answered /\ caught # NoExc)
        => (IsError /\ resp.code = -32603 /\ Contains(resp.message, caught))

C2_Witness ==
    Answered /\ IsToolsCall /\ calls # <<>> /\ outcome.k = "raise"
    /\ caught = "search failed" /\ resp.code = -32603

\* C3 as stated: every tools/call whose name is absent or is no registered tool
\* is answered with error -32601 and no adapter method is called.
C3_Original ==
    (Answered /\ IsToolsCall /\ req.name \notin ToolNames)
        => (IsError /\ resp.code = -32601 /\ NoAdapterWork)

\* C3, amended: every tools/call whose name is absent or is no registered tool
\* is answered with an error, never a result, and no adapter method is called;
\* the code is -32601 when params is a mapping and the name is hashable, and
\* -32603 otherwise (the lookup raised).
C3_UnknownToolIsAnError ==
    (pc # "idle" /\ IsToolsCall /\ req.name \notin ToolNames)
        => /\ Answered /\ IsError /\ NoAdapterWork
           /\ resp.code = IF IsDict(GetDefault(req.params, EmptyDict)) /\ Hashable(req.name)
                          THEN -32601 ELSE -32603

C3_Witness ==
    Answered /\ IsToolsCall /\ req.name = "generate_code_sample" /\ resp.code = -32601

\* C4: a request whose method is none of the five known methods is answered
\* with error -32601, message "Method not found: <method>", and no adapter
\* method is called.
C4_UnknownMethod ==
    (pc # "idle" /\ Get(req.method) \notin Methods)
        => /\ Answered /\ IsError /\ resp.code = -32601
           /\ resp.message = <<"Method not found: ", Str(Get(req.method))>>
           /\ NoAdapterWork

C4_Witness ==
    Answered /\ req.method = "resources/list" /\ req.id = "1" /\ IsError

\* C5: a notifications/initialized message gets no response and no adapter
\* method is called for it.
C5_NotificationUnanswered ==
    (pc # "idle" /\ req.method = "notifications/initialized")
        => (Answered /\ resp = NoResponse /\ NoAdapterWork)

C5_Witness ==
    Answered /\ req.method = "notifications/initialized" /\ req.id = "1"
    /\ resp.kind = "none"

\* the error objects of the request-handling path: the handler's response and
\* the body of the transport's reply
Replied == pc = "done"
HandlerError == resp.kind = "error"
TransportError == http.body.kind = "error"
NameNotFound ==
    \/ Get(req.method) \notin Methods
    \/ req.method = "tools/call" /\ req.name \notin ToolNames

\* C6: every error object the handler returns or the HTTP transport answers
\* with has code -32601 or -32603; it has -32601 only when the request's
\* method is not a known method or its tool name is not a registered tool,
\* and -32603 only when an except clause caught an exception.
C6_ErrorCodes ==
    /\ HandlerError =>
          /\ resp.code \in {-32601, -32603}
          /\ (resp.code = -32601) => NameNotFound
          /\ (resp.code = -32603) => caught # NoExc
    /\ TransportError =>
          /\ http.body.code \in {-32601, -32603}
          /\ (http.body.code = -32601) => NameNotFound
          /\ (http.body.code = -32603) => caught # NoExc

C6_Witness ==
    Replied /\ posted.json = "invalid" /\ TransportError /\ ~HandlerError
    /\ http.status_code = 500 /\ http.body.code = -32603
    /\ caught = JSONDecodeErrorText

IsExecuteCall == IsToolsCall /\ req.name = "execute"
ArgumentsAreMapping == IsDict(GetDefault(req.arguments, EmptyDict))
\* neither an id nor a complete (execution_type, uuid) pair
IdentityMissing ==
    /\ ~Truthy(Get(req.exec_id))
    /\ (~Truthy(Get(req.execution_type)) \/ ~Truthy(Get(req.uuid)))
InputsNotMapping == req.inputs # Absent /\ ~IsDict(req.inputs)
HintsAtFeedback == Contains(ToolPayload.suggested_next_actions, "submit_feedback")

\* C7 as stated: every execute call whose identity is missing or empty, or
\* whose inputs is present and no mapping, ends in a payload with success false
\* and a message; no exception escapes and no remote call is made.
C7_Original ==
    (pc # "idle" /\ IsExecuteCall /\ (IdentityMissing \/ InputsNotMapping))
        => (Answered /\ IsFailurePayload /\ caught = NoExc /\ calls = <<>>)

\* C7, amended: every execute call whose arguments are a mapping and whose
\* identity is missing or empty, or whose inputs is present and no mapping,
\* ends in a payload with success false and a message; no exception escapes
\* and no remote call is made.
C7_ExecuteValidation ==
    (pc # "idle" /\ IsExecuteCall /\ ArgumentsAreMapping
     /\ (IdentityMissing \/ InputsNotMapping))
        => (Answered /\ IsFailurePayload /\ caught = NoExc /\ calls = <<>>)

C7_Witness ==
    Answered /\ IsExecuteCall /\ req.execution_type = "operation"
    /\ req.uuid = "uuid-1" /\ req.inputs = JList /\ IsFailurePayload

\* C8 as stated: every execute call, of an operation or of a workflow, in which
\* the remote service reports success false ends in a payload with success
\* false, a message and a hint at submit_feedback.
C8_Claim ==
    (Answered /\ IsExecuteCall /\ outcome.k = "return" /\ outcome.success = "False")
        => (IsFailurePayload /\ HintsAtFeedback)

\* C9: every execute call that passed validation and whose remote call raises
\* ends in a payload with success false, the message "Error during execution: "
\* followed by the exception's text, and a hint at submit_feedback; the handler
\* sees no exception.
C9_ExecuteExceptionIsPayload ==
    (Answered /\ IsExecuteCall /\ calls # <<>> /\ outcome.k = "raise")
        => /\ IsFailurePayload
           /\ ToolPayload.message = <<"Error during execution: ", outcome.text>>
           /\ HintsAtFeedback
           /\ caught = NoExc

C9_Witness ==
    Answered /\ IsExecuteCall /\ req.execution_type = "workflow"
    /\ outcome.k = "raise" /\ IsFailurePayload

\* the arguments lack a required field or hold a value of the wrong type
ArgumentsInvalid ==
    CASE req.name = "search_apis" -> req.capability_description = Absent
      [] req.name = "execute" ->
            \/ Get(req.execution_type) \notin {"operation", "workflow"}
            \/ ~Truthy(Get(req.uuid))
            \/ InputsNotMapping
      [] req.name = "submit_feedback" -> ~IsDict(Get(req.feedback_data))
      [] OTHER -> FALSE

\* C10 as stated: every tools/call of a registered tool with invalid arguments
\* is answered with a result whose payload has success false and a message,
\* never with an error.
C10_Claim ==
    (pc # "idle" /\ IsToolsCall /\ req.name \in ToolNames /\ ArgumentsAreMapping
     /\ ArgumentsInvalid)
        => (Answered /\ IsFailurePayload)

\* the single-id form of the execution identity: an id, no execution_type, no uuid
IdForm == req.exec_id # Absent /\ req.execution_type = Absent /\ req.uuid = Absent

\* C11 as stated: an execute call that gives only a prefixed id (op_...) and
\* mapping inputs passes validation and reaches the remote service, for the
\* operation the id names, as the call giving execution_type and uuid does.
C11_Claim ==
    (pc # "idle" /\ IsExecuteCall /\ ArgumentsAreMapping /\ IdForm /\ ~InputsNotMapping)
        => (calls # <<>> /\ calls[1].op = "execute_operation")

IsToolsList == req.method = "tools/list"
ListedTools == resp.result.tools

\* C12 as stated: every tools/list result lists exactly the four tools
\* search_apis, load_execution_info, execute and submit_feedback, each with a
\* non-empty name and a non-empty description.
C12_Claim ==
    (Answered /\ IsToolsList /\ IsResult)
        => /\ Len(ListedTools) = 4
           /\ {ListedTools[i].name : i \in DOMAIN ListedTools} = ToolNames
           /\ \A i \in DOMAIN ListedTools :
                 ListedTools[i].name # "" /\ ListedTools[i].description # ""

IsFeedbackCall == IsToolsCall /\ req.name = "submit_feedback"
FeedbackDataInvalid ==
    ~Truthy(Get(req.feedback_data)) \/ ~IsDict(Get(req.feedback_data))
SaysMissingOrInvalid ==
    Contains(ToolPayload.message, "Missing or invalid 'feedback_data' parameter.")

\* C13 as stated: every submit_feedback call whose feedback_data is absent,
\* empty or no mapping ends in a payload with success false and the message
\* "Missing or invalid ...", and the feedback endpoint is not called.
C13_Original ==
    (pc # "idle" /\ IsFeedbackCall /\ FeedbackDataInvalid)
        => (Answered /\ IsFailurePayload /\ SaysMissingOrInvalid /\ calls = <<>>)

\* C13, amended: every submit_feedback call whose arguments are a mapping and
\* whose feedback_data is absent, empty or no mapping ends in a payload with
\* success false and the message "Missing or invalid ...", and the feedback
\* endpoint is not called.
C13_FeedbackValidation ==
    (pc # "idle" /\ IsFeedbackCall /\ ArgumentsAreMapping /\ FeedbackDataInvalid)
        => (Answered /\ IsFailurePayload /\ SaysMissingOrInvalid /\ calls = <<>>)

C13_Witness ==
    Answered /\ IsFeedbackCall /\ req.feedback_data = "not_a_dict"
    /\ IsFailurePayload /\ SaysMissingOrInvalid /\ calls = <<>>

FeedbackDataValid == ArgumentsAreMapping /\ ~FeedbackDataInvalid

\* C14: while a tools/call is handled at most one call goes out to the remote
\* service, whatever that call comes back with (a network error, a non-2xx
\* status, any other exception), and a submit_feedback call with valid
\* feedback_data has issued exactly one, to the feedback endpoint, when it is
\* answered.
C14_AtMostOneCall ==
    /\ Len(calls) <= 1
    /\ (Answered /\ IsFeedbackCall /\ FeedbackDataValid)
          => (Len(calls) = 1 /\ calls[1].op = "post")

C14_Witness ==
    Answered /\ IsFeedbackCall /\ outcome.k = "raise" /\ outcome.cls = "RequestError"
    /\ Len(calls) = 1 /\ IsFailurePayload

\* the status of the endpoint's answer is 2xx
Is2xx(status_code) == status_code \in {"200", "204"}

\* how the call to the feedback endpoint failed
FeedbackFailure ==
    CASE outcome.k = "raise" /\ outcome.cls = "RequestError" -> "request"
      [] outcome.k = "raise" -> "unexpected"
      [] outcome.k = "return" /\ ~Is2xx(outcome.status_code) -> "status"
      [] OTHER -> "none"

FeedbackTemplate ==
    [request |-> "Failed to submit feedback due to network/request issue: ",
     status |-> "Failed to submit feedback, server returned error: ",
     unexpected |-> "An unexpected error occurred while submitting feedback: "]

\* C15: a submit_feedback call whose call to the endpoint failed ends in a
\* payload with success false whose message starts with the template of its
\* failure class (request error, HTTP status, any other exception) and with
\* no other class's template; the message for an HTTP status holds the status
\* code and the response body text.
C15_FailureClassNamed ==
    (Answered /\ IsFeedbackCall /\ calls # <<>> /\ FeedbackFailure # "none")
        => /\ IsFailurePayload
           /\ ToolPayload.message[1] = FeedbackTemplate[FeedbackFailure]
           /\ \A c \in DOMAIN FeedbackTemplate \ {FeedbackFailure} :
                 ToolPayload.message[1] # FeedbackTemplate[c]
           /\ FeedbackFailure = "status"
                 => /\ Contains(ToolPayload.message, outcome.status_code)
                    /\ Contains(ToolPayload.message, outcome.text)

C15_Witness ==
    Answered /\ IsFeedbackCall /\ outcome.status_code = "500"
    /\ Contains(ToolPayload.message, "500")
    /\ Contains(ToolPayload.message, "Internal Server Error Text")

\* C16 as stated: the jentic_uuid of the feedback sent is the caller's when the
\* caller's feedback_data has one, else the environment's JENTIC_UUID when that
\* is set, else there is none.
C16_Claim ==
    (calls # <<>> /\ calls[1].op = "post")
        => calls[1].json_jentic_uuid =
              IF req.fb_jentic_uuid # Absent THEN req.fb_jentic_uuid
              ELSE IF Truthy(Get(environ.JENTIC_UUID)) THEN environ.JENTIC_UUID
              ELSE Absent

SubmittedSuccessfully ==
    "Feedback submitted successfully. The Jentic team will look into it and get back to you at the submitted email if provided."

IsLoadCall == IsToolsCall /\ req.name = "load_execution_info"
\* the remote service signals an id it does not know
NotFoundRemotely == outcome.k = "raise" /\ outcome.cls = "ValueError"

\* C18: a load_execution_info call in which a requested id is not found
\* remotely ends in a result whose payload has success false and the failure's
\* message; it is no JSON-RPC error and the handler sees no exception.
C18_NotFoundIsPayload ==
    (Answered /\ IsLoadCall /\ NotFoundRemotely)
        => /\ IsFailurePayload
           /\ ToolPayload.message = <<outcome.text>>
           /\ ~IsError
           /\ caught = NoExc

C18_Witness ==
    Answered /\ IsLoadCall /\ outcome.cls = "ValueError"
    /\ outcome.text = "Operation not found" /\ IsFailurePayload

IsSearchCall == IsToolsCall /\ req.name = "search_apis"

\* C19: a search_apis call answered with a result has one content block, of
\* type text, whose text parsed back as JSON has the keys matches, query and
\* total_matches; query is the request's capability_description and
\* total_matches the number of workflows and operations found.
C19_SearchRoundTrip ==
    (Answered /\ IsSearchCall /\ IsResult)
        => /\ IsToolResult
           /\ Len(resp.result.content) = 1
           /\ resp.result.content[1].type = "text"
           /\ LET parsed == JsonLoads(resp.result.content[1].text)
              IN  /\ parsed.matches # Absent
                  /\ parsed.query # Absent
                  /\ parsed.total_matches # Absent
                  /\ parsed.query = req.capability_description
                  /\ parsed.total_matches =
                        ToString(outcome.workflows + outcome.operations)

C19_Witness ==
    Answered /\ IsSearchCall /\ IsResult /\ req.capability_description = "caf<e9>"
    /\ ToolPayload.query = "caf\\u00e9" /\ ToolPayload.total_matches = "2"

IsInitialize == req.method = "initialize"

\* an initialize request answered with a result echoes its own protocolVersion
EchoesOwnVersion ==
    (Answered /\ IsInitialize /\ IsResult)
        => resp.result.protocolVersion = GetDefault(req.protocolVersion, "2024-11-05")

\* handling an initialize request changes nothing but the request in hand and
\* its response
InitializeLeavesStateAlone ==
    (pc = "idle" /\ pc' # "idle" /\ req'.method = "initialize")
        => /\ pc' = "done"
           /\ environ' = environ
           /\ calls' = <<>> /\ invoked' = <<>> /\ pending' = NoCall
           /\ served' = served

\* C20: every initialize request answered with a result echoes its own
\* protocolVersion, or "2024-11-05" when it has none, whatever initialize
\* requests were answered before it; handling it calls nothing and leaves the
\* environment as it was.
C20_InitializeIdempotent ==
    []EchoesOwnVersion /\ [][InitializeLeavesStateAlone]_vars

C20_Witness ==
    Answered /\ IsInitialize /\ IsResult /\ initialized = <<"2025-03-26">>
    /\ req.protocolVersion = Absent /\ resp.result.protocolVersion = "2024-11-05"

\* C21 as stated: every initialize request, whatever its params, is answered
\* with a result that carries protocolVersion, capabilities {tools: {}} and
\* serverInfo, never with an error.
C21_Claim ==
    (pc # "idle" /\ IsInitialize)
        => /\ Answered /\ IsResult
           /\ resp.result.shape = "initialize"
           /\ resp.result.protocolVersion = GetDefault(req.protocolVersion, "2024-11-05")
           /\ resp.result.capabilities = [tools |-> EmptyDict]
           /\ resp.result.serverInfo.name = "jentic"

\* the tool names tools/list advertises
AdvertisedNames ==
    {get_all_tool_definitions[i].name : i \in DOMAIN get_all_tool_definitions}

\* C28 as stated: the names a tools/list result lists are the names tools/call
\* dispatches, and every tool a tools/call was dispatched to is advertised.
C28_Claim ==
    /\ (Answered /\ IsToolsList /\ IsResult)
          => {ListedTools[i].name : i \in DOMAIN ListedTools} = DOMAIN tool_handlers
    /\ (IsToolsCall /\ invoked # <<>>) => req.name \in AdvertisedNames

\* the POSTed JSON object is no well-formed JSON-RPC message
Malformed ==
    /\ posted.json = "object"
    /\ (posted.jsonrpc # "2.0" \/ ~Truthy(Get(posted.data.method)))

\* C24 as stated: a POSTed JSON object whose jsonrpc entry is missing or not
\* "2.0", or whose method is missing or empty, is answered with a JSON-RPC
\* error object whose code is in the reserved range -32768 .. -32000, and no
\* adapter method is called for it.
C24_Claim ==
    (Replied /\ Malformed)
        => /\ TransportError
           /\ http.body.code \in -32768 .. -32000
           /\ NoAdapterWork

\* a step in which the POST of a notifications/initialized message is handled
NotificationPosted ==
    /\ pc = "idle" /\ pc' = "done"
    /\ posted'.json = "object" /\ posted'.jsonrpc = "2.0"
    /\ posted'.data.method = "notifications/initialized"

\* C27 as stated: handling the POST of a notifications/initialized message puts
\* nothing on the message queue of any SSE connection and emits no JSON-RPC
\* response object.
C27_Claim ==
    [][NotificationPosted
          => /\ active_connections' = active_connections
             /\ http'.body.kind = "none"]_vars

\* a step in which streamable_http_post gets the handler's response to a request
ResponseComputed ==
    /\ pc # "done" /\ pc' = "done"
    /\ http'.status_code = 200
    /\ resp'.kind \in {"result", "error"}

\* C29: when the response to a POSTed request is computed it becomes the body
\* of the HTTP reply to the poster, and the queue of every connection in the
\* table at that moment gets that response appended once; no connection is
\* added or removed by it.
C29_ResponseBroadcast ==
    [][ResponseComputed
          => /\ http'.body = resp'
             /\ DOMAIN active_connections' = DOMAIN active_connections
             /\ \A c \in DOMAIN active_connections :
                   active_connections'[c].message_queue =
                       Append(active_connections[c].message_queue, resp')]_vars

C29_Witness ==
    /\ Replied /\ IsToolsCall /\ calls # <<>> /\ IsResult /\ http.body = resp
    /\ DOMAIN active_connections = ConnIds
    /\ \A c \in ConnIds : active_connections[c].message_queue = <<resp>>

Running(c) == stream[c].ev \in {"initialized", "message"}

\* C30: a connection id is in the table of active connections exactly while
\* its event_stream has started and not ended, whatever ended it.
C30_TableHoldsRunningStreams ==
    \A c \in ConnIds : (c \in DOMAIN active_connections) <=> Running(c)

C30_Witness ==
    /\ stream[1].ev = "ended" /\ stream[1].why = "cancelled"
    /\ DOMAIN active_connections = {2}
    /\ active_connections[2].message_queue # <<>>

\* from_env has been called
ConfigMade == config # NoConfig

KeyMissing == sdk_environ["JENTIC_AGENT_API_KEY"] \in {Absent, ""}

EnvironmentInvalid == sdk_environ["JENTIC_ENVIRONMENT"] \notin {Absent, "prod", "qa"}

Float(text) ==
    CASE text = "1.5" -> "1.5"
      [] text = "130" -> "130.0"
      [] OTHER -> "ValueError"

TimeoutField(n) ==
    CASE n = "JENTIC_CONNECT_TIMEOUT" -> config.connect_timeout
      [] n = "JENTIC_READ_TIMEOUT" -> config.read_timeout
      [] n = "JENTIC_WRITE_TIMEOUT" -> config.write_timeout
      [] n = "JENTIC_POOL_TIMEOUT" -> config.pool_timeout

TimeoutDefault(n) ==
    IF n \in {"JENTIC_CONNECT_TIMEOUT", "JENTIC_READ_TIMEOUT"} THEN "10.0" ELSE "120.0"

\* C26: with a key and a valid environment, from_env raises ValueError when one
\* of the four timeout variables is set to an empty or blank value; otherwise
\* each timeout of the config is the number its variable is set to, and the
\* default (10, 10, 120, 120) when the variable is unset.
C26_Claim ==
    (ConfigMade /\ ~KeyMissing /\ ~EnvironmentInvalid) =>
        IF \E n \in TimeoutVars : Float(getenv(sdk_environ, n, "1.5")) = "ValueError"
        THEN config.k = "raise" /\ config.exc = "ValueError"
        ELSE /\ config.k = "return"
             /\ \A n \in TimeoutVars :
                    TimeoutField(n) = IF sdk_environ[n] = Absent THEN TimeoutDefault(n)
                                      ELSE Float(sdk_environ[n])

TaskAnswered(t) == tasks[t].pc = "done"

TaskPayload(t) == JsonLoads(tasks[t].resp.result.content[1].text)

TaskIsToolResult(t) ==
    tasks[t].resp.kind = "result" /\ tasks[t].resp.result.shape = "content"

C23_OwnResponse ==
    \A t \in Tasks :
        TaskAnswered(t) =>
            /\ tasks[t].resp.id = tasks[t].req.id
            /\ tasks[t].outcome.k = "raise" =>
                   \/ Contains(tasks[t].resp.message, tasks[t].outcome.text)
                   \/ /\ TaskIsToolResult(t)
                      /\ Contains(TaskPayload(t).message, tasks[t].outcome.text)
            /\ (tasks[t].outcome.k = "return" /\ tasks[t].req.name = "search_apis") =>
                   /\ TaskIsToolResult(t)
                   /\ TaskPayload(t).query = tasks[t].req.capability_description
                   /\ TaskPayload(t).total_matches =
                          ToString(tasks[t].outcome.workflows
                                   + tasks[t].outcome.operations)
            /\ (tasks[t].outcome.k = "return" /\ tasks[t].req.name = "execute") =>
                   /\ TaskIsToolResult(t)
                   /\ TaskPayload(t).output = tasks[t].outcome.value

\* two searches with different ids and queries were in flight at the same
\* time, their calls found different numbers of matches, and both are answered
C23_Witness ==
    \E t, u \in Tasks :
        /\ TaskAnswered(t) /\ TaskAnswered(u)
        /\ u \in tasks[t].overlapped
        /\ tasks[t].req.name = "search_apis" /\ tasks[u].req.name = "search_apis"
        /\ tasks[t].req.id # tasks[u].req.id
        /\ tasks[t].outcome.k = "return" /\ tasks[u].outcome.k = "return"
        /\ tasks[t].outcome # tasks[u].outcome

====
